---- MODULE Spec2Model ----
(***************************************************************************)
(* State-machine model of quick_anomaly_detector/models.py:                *)
(*   - TrainAnomalyNN        (min-max normalisation, training loop with    *)
(*                            early stopping, predict)                     *)
(*   - AnomalyDetectionModel (Gaussian estimate, density, threshold        *)
(*                            search, train, predict)                      *)
(* Floating-point values are modelled as exact rationals plus the IEEE     *)
(* specials inf / -inf / nan.  The reconstruction network itself is not    *)
(* modelled: the loss of an epoch is any value of Loss, or nan as soon as  *)
(* the batch handed to the network holds a non-finite value.               *)
(***************************************************************************)
EXTENDS Integers, Sequences, FiniteSets, TLC

VARIABLES
    focus,              \* which object of the library this run exercises
    \* ---- TrainAnomalyNN fields (models.py 292-304)
    input_dim, num_epochs, patience, model, stop_step, best_loss,
    train_loss_arr, valid_loss_arr, train_min_values, train_max_values,
    \* ---- TrainAnomalyNN.train in flight: arguments and locals
    pc, X_train, X_valid, normalized_training_data, normalized_validation_data,
    epoch, counter, loc_best_loss, call_start,
    optimizer_steps,    \* optimizer.step() calls of the epoch just run
    \* ---- outcome of the last TrainAnomalyNN call
    nn_ret,
    \* ---- the train calls so far: epochs entered, and whether one raised
    epochs_run, train_raised,
    \* ---- AnomalyDetectionModel fields (models.py 58-63)
    mu_train, var_train, p_values_train, p_values_val, epsilon, f1,
    \* ---- calls on the detector: position, train calls made, last outcome,
    \*      and one remembered predict call since the last train call
    g_pc, g_calls, g_ret, g_memo,
    \* ---- the X_val and y_val of the last train call, if it returned
    g_val,
    \* ---- a pure function under test: its arguments and its result
    fn_pc, fn_X, fn_y, fn_p, fn_ret,
    \* ---- KMeansModel: the attributes of the instance (models.py 463)
    km_self,
    \* ---- KMeansModel.train in flight: arguments and locals (models.py 529-538)
    km_pc, km_X, km_K, km_max_iters, initial_centroids, centroids, idx, km_i,
    \* ---- outcome of the last KMeansModel.train call
    km_ret

nn_fields == <<input_dim, num_epochs, patience, model, stop_step, best_loss,
               train_loss_arr, valid_loss_arr, train_min_values, train_max_values>>
nn_locals == <<pc, X_train, X_valid, normalized_training_data,
               normalized_validation_data, epoch, counter, loc_best_loss, call_start,
               optimizer_steps>>
nn_calls == <<epochs_run, train_raised>>
nn_vars == <<nn_fields, nn_locals, nn_ret, nn_calls>>

gauss_fields == <<mu_train, var_train, p_values_train, p_values_val, epsilon, f1>>
gauss_vars == <<gauss_fields, g_pc, g_calls, g_ret, g_memo, g_val>>
fn_vars == <<fn_pc, fn_X, fn_y, fn_p, fn_ret>>

km_locals == <<km_pc, km_X, km_K, km_max_iters, initial_centroids, centroids, idx, km_i>>
km_vars == <<km_self, km_locals, km_ret>>

vars == <<focus, nn_vars, gauss_vars, fn_vars, km_vars>>

(***************************************************************************)
(* Bounds of the model                                                     *)
(***************************************************************************)
MaxVal == 1         \* matrix entries are 0..MaxVal
MaxRows == 2        \* training matrices have 0..MaxRows samples
MaxTrainFeat == 2   \* training matrices have 1..MaxTrainFeat features
MaxBatch == 1       \* validation and inference batches have 0..MaxBatch samples
MaxFeat == 3        \* validation and inference batches have 1..MaxFeat features
DataEpochs == 1     \* num_epochs of the trainer the data-shape runs construct
GaussMaxVal == 2    \* entries of the Gaussian detector's matrices are 0..GaussMaxVal,
GaussTrainVal == 1  \* those of the X_train of its train calls 0..GaussTrainVal
GaussRows == 2      \* the Gaussian detector's matrices have 0..GaussRows samples
GaussFeat == 2      \* estimate_gaussian is applied to 1..GaussFeat features
MaxTrainCalls == 2  \* train calls made on one Gaussian detector
MaxN == 3           \* select_threshold is applied to 0..MaxN samples
MaxScore == 2       \* with density scores 0..MaxScore ...
FarScore == 2001    \* ... and one score far away from them
MaxEpochs == 3      \* num_epochs is 0..MaxEpochs
MaxPatience == 2    \* patience is 0..MaxPatience
MaxLoss == 1        \* a finite epoch loss is 0..MaxLoss
KMVal == 1          \* an entry of a matrix given to KMeansModel is 0..KMVal
KMRows == 3         \* ... which has 0..KMRows rows
KMFeat == 2         \* ... and 1..KMFeat features
MaxK == 2           \* an explicit K is 1..MaxK
MaxIters == 2       \* max_iters is 0..MaxIters
MaxHist == 2        \* train may be called while fewer epochs than this are recorded

(***************************************************************************)
(* Floats: rationals n/d in lowest terms (d > 0), inf, -inf, nan           *)
(***************************************************************************)
RECURSIVE Gcd(_, _)
Gcd(a, b) == IF b = 0 THEN a ELSE Gcd(b, a % b)

Abs(a) == IF a < 0 THEN -a ELSE a

Num(n) == [k |-> "num", n |-> n, d |-> 1]
Inf == [k |-> "inf", n |-> 1, d |-> 0]
NegInf == [k |-> "inf", n |-> -1, d |-> 0]
NaN == [k |-> "nan", n |-> 0, d |-> 0]

IsFinite(x) == x.k = "num"

\* a / b on numpy arrays of integers-as-floats, b >= 0: division by zero does
\* not raise, it yields nan (0/0) or +-inf
Div(a, b) ==
    IF b = 0
    THEN IF a = 0 THEN NaN ELSE IF a > 0 THEN Inf ELSE NegInf
    ELSE LET g == Gcd(Abs(a), b)
         IN  [k |-> "num", n |-> a \div g, d |-> b \div g]

\* IEEE a < b: false as soon as one side is nan
FLt(a, b) ==
    CASE a.k = "nan" \/ b.k = "nan" -> FALSE
      [] a.k = "num" /\ b.k = "num" -> a.n * b.d < b.n * a.d
      [] a.k = "inf" /\ b.k = "inf" -> a.n < b.n
      [] a.k = "inf" -> a.n < 0
      [] OTHER -> b.n > 0

(***************************************************************************)
(* Matrices: rows x cols, entries 0..MaxVal                                *)
(***************************************************************************)
None == <<>>
Some(v) == <<v>>

Vectors(f) == [1..f -> 0..MaxVal]
Matrix(m, f) == [rows : {m}, cols : {f}, data : [1..m -> Vectors(f)]]
TrainMatrices == UNION {Matrix(m, f) : m \in 0..MaxRows, f \in 1..MaxTrainFeat}
Batches == UNION {Matrix(m, f) : m \in 0..MaxBatch, f \in 1..MaxFeat}
\* the same with a single feature
TrainColumns == UNION {Matrix(m, 1) : m \in 0..MaxRows}
BatchColumns == UNION {Matrix(m, 1) : m \in 0..MaxBatch}
NoMatrix == [rows |-> 0, cols |-> 0, data |-> <<>>]

\* f(1) + ... + f(n)
RECURSIVE SumTo(_, _)
SumTo(f(_), n) == IF n = 0 THEN 0 ELSE f(n) + SumTo(f, n - 1)

\* the sequence <<f(1), ..., f(n)>>, built element by element
RECURSIVE Tabulate(_, _)
Tabulate(f(_), n) == IF n = 0 THEN <<>> ELSE Append(Tabulate(f, n - 1), f(n))

SetMin(S) == CHOOSE x \in S : \A y \in S : x <= y
SetMax(S) == CHOOSE x \in S : \A y \in S : x >= y

\* np.min(X, axis=0), np.max(X, axis=0) of a matrix with at least one row
ColMin(X) == [j \in 1..X.cols |-> SetMin({X.data[i][j] : i \in 1..X.rows})]
ColMax(X) == [j \in 1..X.cols |-> SetMax({X.data[i][j] : i \in 1..X.rows})]

\* numpy broadcasting of an (m, f) matrix against a vector of length g
Broadcastable(f, g) == f = g \/ f = 1 \/ g = 1
BCols(f, g) == IF f >= g THEN f ELSE g

\* (X - min_vals) / (max_vals - min_vals), elementwise with broadcasting
ScaleWith(X, min_vals, max_vals) ==
    LET g == Len(min_vals)
        c == BCols(X.cols, g)
        xj(j) == IF X.cols = 1 THEN 1 ELSE j
        vj(j) == IF g = 1 THEN 1 ELSE j
    IN  [rows |-> X.rows, cols |-> c,
         data |-> [i \in 1..X.rows |->
                    [j \in 1..c |-> Div(X.data[i][xj(j)] - min_vals[vj(j)],
                                        max_vals[vj(j)] - min_vals[vj(j)])]]]

AllFinite(N) == \A i \in 1..N.rows : \A j \in 1..N.cols : IsFinite(N.data[i][j])

(***************************************************************************)
(* Rational arithmetic on finite floats                                    *)
(***************************************************************************)
\* (results are left unreduced; Reduced brings one to lowest terms)
Rat(n, d) == [k |-> "num", n |-> n, d |-> d]
FAdd(a, b) == Rat(a.n * b.d + b.n * a.d, a.d * b.d)
FMul(a, b) == Rat(a.n * b.n, a.d * b.d)
FQuot(a, b) == Rat(a.n * b.d, a.d * b.n)
FGt(a, b) == FLt(b, a)
Reduced(a) == Div(a.n, a.d)

(***************************************************************************)
(* AnomalyDetectionModel.select_threshold                                  *)
(***************************************************************************)
\* the number of candidate thresholds: step_size = (max - min) / 1000
GridSteps == 1000

SeqMin(p) == SetMin({p[i] : i \in 1..Len(p)})
SeqMax(p) == SetMax({p[i] : i \in 1..Len(p)})

Count(S) == Cardinality(S)

\* precision, recall and F1 of one candidate (lines 82-88)
F1At(y_val, p_val, eps) ==
    LET I == 1..Len(p_val)
        predictions == [i \in I |-> p_val[i] * eps.d < eps.n]    \* p_val < epsilon
        tp == Count({i \in I : predictions[i] /\ y_val[i] = 1})
        fp == Count({i \in I : predictions[i] /\ y_val[i] = 0})
        fn == Count({i \in I : ~predictions[i] /\ y_val[i] = 1})
        precision == IF tp + fp > 0 THEN Rat(tp, tp + fp) ELSE Num(0)
        recall == IF tp + fn > 0 THEN Rat(tp, tp + fn) ELSE Num(0)
    IN  IF FGt(FAdd(precision, recall), Num(0))
        THEN FQuot(FMul(Num(2), FMul(precision, recall)), FAdd(precision, recall))
        ELSE Num(0)

\* the k-th element of np.arange(min, max, step_size): min + k * step_size
Candidate(lo, hi, k) == Rat(lo * GridSteps + k * (hi - lo), GridSteps)

\* a comparison that lets a later candidate with an equal F1 take over
BetterOrEqual(F1, best_F1) == ~FLt(F1, best_F1)

\* if F1 > best_F1   (line 89)
Better(F1, best_F1) == FGt(F1, best_F1)

\* one iteration of the loop of lines 81-91, best being (best_epsilon, best_F1)
ThresholdStep(y_val, p_val, lo, hi, k, best) ==
    LET eps == Candidate(lo, hi, k)
        F1 == F1At(y_val, p_val, eps)
    IN  IF Better(F1, best.F1) THEN [epsilon |-> eps, F1 |-> F1] ELSE best

\* the iterations k = a .. b-1 in increasing order (split in halves only to
\* keep the evaluation shallow)
RECURSIVE ThresholdLoop(_, _, _, _, _, _, _)
ThresholdLoop(y_val, p_val, lo, hi, a, b, best) ==
    IF a >= b
    THEN best
    ELSE IF b = a + 1
    THEN ThresholdStep(y_val, p_val, lo, hi, a, best)
    ELSE LET mid == (a + b) \div 2
             first == ThresholdLoop(y_val, p_val, lo, hi, a, mid, best)
         IN  IF first.F1.k = "num"    \* the first half is done before the second
             THEN ThresholdLoop(y_val, p_val, lo, hi, mid, b, first)
             ELSE first

\* select_threshold(y_val, p_val), lines 76-92
SelectThreshold(y_val, p_val) ==
    IF Len(p_val) = 0
    THEN \* max() of an empty sequence
         [kind |-> "ValueError", epsilon |-> Num(0), F1 |-> Num(0)]
    ELSE IF SeqMax(p_val) = SeqMin(p_val)
    THEN \* step_size is 0: np.arange cannot compute its length
         [kind |-> "ValueError", epsilon |-> Num(0), F1 |-> Num(0)]
    ELSE LET r == ThresholdLoop(y_val, p_val, SeqMin(p_val), SeqMax(p_val), 0, GridSteps,
                                [epsilon |-> Num(0), F1 |-> Num(0)])
         IN  [kind |-> "ok", epsilon |-> Reduced(r.epsilon), F1 |-> Reduced(r.F1)]

(***************************************************************************)
(* TrainAnomalyNN                                                          *)
(***************************************************************************)
Loss == {Num(l) : l \in 0..MaxLoss}

Ret(op, kind) ==
    [op |-> op, kind |-> kind, X |-> NoMatrix, normalized |-> NoMatrix, rows |-> 0]

NNIdle ==
    /\ input_dim = None
    /\ num_epochs = 0
    /\ patience = 0
    /\ model = None
    /\ stop_step = 0
    /\ best_loss = Num(0)
    /\ train_loss_arr = <<>>
    /\ valid_loss_arr = <<>>
    /\ train_min_values = None
    /\ train_max_values = None
    /\ pc = "idle"
    /\ X_train = NoMatrix
    /\ X_valid = NoMatrix
    /\ normalized_training_data = NoMatrix
    /\ normalized_validation_data = NoMatrix
    /\ epoch = 0
    /\ counter = 0
    /\ loc_best_loss = Inf
    /\ call_start = 0
    /\ optimizer_steps = 0
    /\ epochs_run = 0
    /\ train_raised = FALSE
    /\ nn_ret = Ret("none", "ok")

\* TrainAnomalyNN.__init__(lr, num_epochs, patience)
NNInit(epochs, patiences) ==
    /\ input_dim = None
    /\ num_epochs \in epochs
    /\ patience \in patiences
    /\ model = None
    /\ stop_step = 0
    /\ best_loss = Num(0)
    /\ train_loss_arr = <<>>
    /\ valid_loss_arr = <<>>
    /\ train_min_values = None
    /\ train_max_values = None
    /\ pc = "idle"
    /\ X_train = NoMatrix
    /\ X_valid = NoMatrix
    /\ normalized_training_data = NoMatrix
    /\ normalized_validation_data = NoMatrix
    /\ epoch = 0
    /\ counter = 0
    /\ loc_best_loss = Inf
    /\ call_start = 0
    /\ optimizer_steps = 0
    /\ epochs_run = 0
    /\ train_raised = FALSE
    /\ nn_ret = Ret("none", "ok")

\* the locals of train are dead once the call is over; the outcome is handed
\* to the caller
LocalsCleared ==
    /\ pc' = "returned"
    /\ X_train' = NoMatrix
    /\ X_valid' = NoMatrix
    /\ normalized_training_data' = NoMatrix
    /\ normalized_validation_data' = NoMatrix
    /\ epoch' = 0
    /\ counter' = 0
    /\ loc_best_loss' = Inf
    /\ optimizer_steps' = 0

\* a call on the trainer touches nothing but the trainer
OnlyNN == focus = "nn" /\ UNCHANGED <<focus, gauss_vars, fn_vars, km_vars>>

\* a comparison that also counts a tie as an improvement
ImprovedOrEqual(valid_loss, best) == FLt(valid_loss, best) \/ valid_loss = best

\* if valid_loss < best_loss   (line 376)
Improved(valid_loss, best) == FLt(valid_loss, best)

\* a loop that runs one epoch more than range(self.num_epochs)
MoreEpochsInclusive(e) == e + 1 <= num_epochs

\* for epoch in range(self.num_epochs): another epoch follows epoch e
MoreEpochs(e) == e + 1 < num_epochs

\* if counter >= self.patience   (line 381)
PatienceSpent(c) == c >= patience

\* a normaliser that takes the bounds of every batch from the batch itself
NormalizeDataOwnBounds(X, isValid, smin, smax) ==
    IF X.rows = 0
    THEN [min_vals |-> smin[1], max_vals |-> smax[1],
          stored_min |-> smin, stored_max |-> smax,
          out |-> ScaleWith(X, smin[1], smax[1])]
    ELSE [min_vals |-> ColMin(X), max_vals |-> ColMax(X),
          stored_min |-> Some(ColMin(X)), stored_max |-> Some(ColMax(X)),
          out |-> ScaleWith(X, ColMin(X), ColMax(X))]

\* _normalize_data(X, isValid) on a trainer holding the bounds smin, smax
\* (None or Some): the bounds the batch is scaled with, the bounds the trainer
\* holds afterwards, and the scaled batch.  X has a row whenever isValid is false.
NormalizeData(X, isValid, smin, smax) ==
    IF isValid
    THEN [min_vals |-> smin[1], max_vals |-> smax[1],
          stored_min |-> smin, stored_max |-> smax,
          out |-> ScaleWith(X, smin[1], smax[1])]
    ELSE [min_vals |-> ColMin(X), max_vals |-> ColMax(X),
          stored_min |-> Some(ColMin(X)), stored_max |-> Some(ColMax(X)),
          out |-> ScaleWith(X, ColMin(X), ColMax(X))]

\* train, lines 336-351: both normalisations, the network, the loop's locals
NNTrainBegin(Xt, Xv) ==
    /\ OnlyNN
    /\ pc = "idle"
    /\ Len(train_loss_arr) < MaxHist
    /\ call_start' = Len(valid_loss_arr)
    /\ UNCHANGED epochs_run
    /\ IF Xt.rows = 0
       THEN \* np.min of a zero-size array raises before anything is stored
            /\ nn_ret' = Ret("train", "ValueError")
            /\ train_raised' = TRUE
            /\ LocalsCleared
            /\ UNCHANGED nn_fields
       ELSE LET nt == NormalizeData(Xt, FALSE, train_min_values, train_max_values)
            IN  IF ~Broadcastable(Xv.cols, Len(nt.stored_min[1]))
                THEN \* the shapes of X_valid and the bounds do not broadcast
                     /\ train_min_values' = nt.stored_min
                     /\ train_max_values' = nt.stored_max
                     /\ nn_ret' = Ret("train", "ValueError")
                     /\ train_raised' = TRUE
                     /\ LocalsCleared
                     /\ UNCHANGED <<input_dim, num_epochs, patience, model, stop_step,
                                    best_loss, train_loss_arr, valid_loss_arr>>
                ELSE LET nv == NormalizeData(Xv, TRUE, nt.stored_min, nt.stored_max)
                     IN  /\ train_min_values' = nv.stored_min
                         /\ train_max_values' = nv.stored_max
                         /\ input_dim' = Some(nt.out.cols)
                         /\ model' = Some([input_dim |-> nt.out.cols,
                                           min_vals |-> nv.stored_min[1],
                                           max_vals |-> nv.stored_max[1]])
                         /\ UNCHANGED <<num_epochs, patience, stop_step, best_loss,
                                        train_loss_arr, valid_loss_arr, train_raised>>
                         /\ IF num_epochs = 0
                            THEN /\ nn_ret' = Ret("train", "ok")
                                 /\ LocalsCleared
                            ELSE /\ pc' = "epoch"
                                 /\ X_train' = Xt
                                 /\ X_valid' = Xv
                                 /\ normalized_training_data' = nt.out
                                 /\ normalized_validation_data' = nv.out
                                 /\ epoch' = 0
                                 /\ counter' = 0
                                 /\ loc_best_loss' = Inf
                                 /\ optimizer_steps' = 0
                                 /\ nn_ret' = Ret("train", "running")

\* DataLoader(dataset, batch_size=64): the sizes of the mini-batches of n samples
BatchSize == 64
LoaderBatches(n) ==
    [b \in 1..((n + BatchSize - 1) \div BatchSize) |->
        IF b * BatchSize <= n THEN BatchSize ELSE n - (b - 1) * BatchSize]

\* the optimizer steps of the training pass of one epoch (lines 355-362): each
\* element the loader yields is a list holding one tensor, the whole
\* mini-batch, and the inner loop steps once per element of that list
TensorsOf(batch) == <<batch>>
TrainingSteps(n) ==
    LET batches == LoaderBatches(n)
        perBatch(b) == Len(TensorsOf(batches[b]))
    IN  SumTo(perBatch, Len(batches))

\* the mean loss of one pass over a batch: nan as soon as the batch or the
\* weights hold a non-finite value, otherwise whatever the network yields
EpochLosses(finite) == IF finite THEN Loss ELSE {NaN}

\* one iteration of `for epoch in range(self.num_epochs)`, lines 352-385
NNTrainEpoch ==
    /\ OnlyNN
    /\ pc = "epoch"
    /\ UNCHANGED <<input_dim, num_epochs, patience, model, train_min_values,
                   train_max_values, call_start>>
    /\ epochs_run' = epochs_run + 1
    /\ \E epoch_loss \in EpochLosses(AllFinite(normalized_training_data)) :
        /\ train_loss_arr' = Append(train_loss_arr, epoch_loss)
        /\ IF normalized_validation_data.rows = 0
           THEN \* valid_loss /= len(valid_loader.dataset) with an empty dataset
                /\ nn_ret' = Ret("train", "ZeroDivisionError")
                /\ train_raised' = TRUE
                /\ LocalsCleared
                /\ UNCHANGED <<valid_loss_arr, stop_step, best_loss>>
           ELSE IF normalized_validation_data.cols # model[1].input_dim
           THEN \* self.model(inputs): the first layer rejects the width
                /\ nn_ret' = Ret("train", "RuntimeError")
                /\ train_raised' = TRUE
                /\ LocalsCleared
                /\ UNCHANGED <<valid_loss_arr, stop_step, best_loss>>
           ELSE \E valid_loss \in EpochLosses(AllFinite(normalized_training_data)
                                              /\ AllFinite(normalized_validation_data)) :
                LET better == Improved(valid_loss, loc_best_loss)
                    nbest == IF better THEN valid_loss ELSE loc_best_loss
                    ncount == IF better THEN 0 ELSE counter + 1
                IN  /\ valid_loss_arr' = Append(valid_loss_arr, valid_loss)
                    /\ UNCHANGED train_raised
                    /\ IF PatienceSpent(ncount)
                       THEN \* early stop: record and break
                            /\ stop_step' = epoch
                            /\ best_loss' = nbest
                            /\ nn_ret' = [Ret("train", "ok") EXCEPT !.rows = epoch + 1]
                            /\ LocalsCleared
                       ELSE IF MoreEpochs(epoch)
                       THEN /\ epoch' = epoch + 1
                            /\ counter' = ncount
                            /\ loc_best_loss' = nbest
                            /\ optimizer_steps' = TrainingSteps(normalized_training_data.rows)
                            /\ UNCHANGED <<stop_step, best_loss, pc, X_train, X_valid,
                                           normalized_training_data,
                                           normalized_validation_data, nn_ret>>
                       ELSE \* range exhausted: the loop ends, nothing is recorded
                            /\ nn_ret' = [Ret("train", "ok") EXCEPT !.rows = epoch + 1]
                            /\ LocalsCleared
                            /\ UNCHANGED <<stop_step, best_loss>>

\* a predict that checks nothing and fails inside the arithmetic on None
PredictPreconditionMissing(m) == IF m = None THEN "TypeError" ELSE "ok"

\* if self.model is None: raise ValueError("Model has not been trained yet.")
PredictPrecondition(m) == IF m = None THEN "ValueError: not trained" ELSE "ok"

\* predict(X, threshold), lines 399-408
NNPredict(X) ==
    /\ OnlyNN
    /\ pc = "idle"
    /\ pc' = "returned"
    /\ UNCHANGED <<X_train, X_valid, normalized_training_data,
                   normalized_validation_data, epoch, counter, loc_best_loss,
                   call_start, optimizer_steps, nn_calls>>
    /\ IF model = None
       THEN /\ nn_ret' = [Ret("predict", PredictPrecondition(model)) EXCEPT !.X = X]
            /\ UNCHANGED nn_fields
       ELSE IF ~Broadcastable(X.cols, Len(train_min_values[1]))
       THEN /\ nn_ret' = [Ret("predict", "ValueError") EXCEPT !.X = X]
            /\ UNCHANGED nn_fields
       ELSE LET nd == NormalizeData(X, TRUE, train_min_values, train_max_values)
            IN  /\ train_min_values' = nd.stored_min
                /\ train_max_values' = nd.stored_max
                /\ UNCHANGED <<input_dim, num_epochs, patience, model, stop_step,
                               best_loss, train_loss_arr, valid_loss_arr>>
                /\ IF nd.out.cols # model[1].input_dim
                   THEN \* self.model(X_tensor): the first layer rejects the width
                        nn_ret' = [Ret("predict", "RuntimeError") EXCEPT !.X = X]
                   ELSE \* one prediction and one loss per row of the scaled batch
                        nn_ret' = [op |-> "predict", kind |-> "ok", X |-> X,
                                   normalized |-> nd.out, rows |-> nd.out.rows]

\* the caller takes the outcome of the call; the trainer is ready for the next
NNReturn ==
    /\ OnlyNN
    /\ pc = "returned"
    /\ pc' = "idle"
    /\ nn_ret' = Ret("none", "ok")
    /\ call_start' = 0
    /\ UNCHANGED <<nn_fields, X_train, X_valid, normalized_training_data,
                   normalized_validation_data, epoch, counter, loc_best_loss,
                   optimizer_steps, nn_calls>>

NNNext(T, B) ==
    \/ \E Xt \in T, Xv \in B : NNTrainBegin(Xt, Xv)
    \/ NNTrainEpoch
    \/ \E X \in B : NNPredict(X)
    \/ NNReturn

(***************************************************************************)
(* AnomalyDetectionModel                                                   *)
(***************************************************************************)
\* a field is a scalar placeholder or a vector
Scalar(x) == [shape |-> "scalar", v |-> <<x>>]
Vec(v) == [shape |-> "vector", v |-> v]

GMatrix(m, f) == [rows : {m}, cols : {f}, data : [1..m -> [1..f -> 0..GaussMaxVal]]]
GaussColumns == UNION {GMatrix(m, 1) : m \in 0..GaussRows}
GaussTrainColumns == {X \in GaussColumns : \A i \in 1..X.rows : X.data[i][1] <= GaussTrainVal}
GaussMatrices == UNION {GMatrix(m, f) : m \in 0..GaussRows, f \in 1..GaussFeat}
LabelVectors(m) == [1..m -> 0..1]

\* an estimate with the sample variance (divisor m - 1) in place of np.var
EstimateGaussianSample(X) ==
    LET m == X.rows
        S(j) == LET x(i) == X.data[i][j] IN SumTo(x, m)
        Q(j) == LET xx(i) == X.data[i][j] * X.data[i][j] IN SumTo(xx, m)
    IN  IF m = 0
        THEN [mu |-> Vec([j \in 1..X.cols |-> NaN]), var |-> Vec([j \in 1..X.cols |-> NaN])]
        ELSE [mu |-> Vec([j \in 1..X.cols |-> Div(S(j), m)]),
              var |-> Vec([j \in 1..X.cols |->
                              Div(m * Q(j) - S(j) * S(j), m * (m - 1))])]

\* estimate_gaussian(X), lines 66-69: per-feature mean and population variance;
\* of no sample at all, numpy's mean and var are nan
EstimateGaussian(X) ==
    LET m == X.rows
        S(j) == LET x(i) == X.data[i][j] IN SumTo(x, m)
        Q(j) == LET xx(i) == X.data[i][j] * X.data[i][j] IN SumTo(xx, m)
    IN  IF m = 0
        THEN [mu |-> Vec([j \in 1..X.cols |-> NaN]), var |-> Vec([j \in 1..X.cols |-> NaN])]
        ELSE [mu |-> Vec([j \in 1..X.cols |-> Div(S(j), m)]),
              var |-> Vec([j \in 1..X.cols |-> Div(m * Q(j) - S(j) * S(j), m * m)])]

\* the density of one sample: a fixed-point stand-in for mvn.pdf, which is
\* exp(-q/2) up to a factor that depends on var alone, q being the squared
\* Mahalanobis distance sum_j (x_j - mu_j)^2 / var_j.  The stand-in is
\* DensityScale / (1 + q) rounded down: positive and decreasing in q.
DensityScale == 1000

RECURSIVE Mahalanobis(_, _, _, _)
Mahalanobis(x, mu, var, j) ==
    IF j = 0
    THEN Num(0)
    ELSE LET dev == Rat(x[j] * mu[j].d - mu[j].n, mu[j].d)
         IN  Reduced(FAdd(Mahalanobis(x, mu, var, j - 1),
                          FQuot(FMul(dev, dev), var[j])))

Density(x, mu, var) ==
    LET q == Mahalanobis(x, mu, var, Len(mu))
    IN  (DensityScale * q.d) \div (q.d + q.n)

\* calculate_p_value(X, mu, var), lines 72-74
CalculatePValue(X, mu, var) ==
    IF var.shape = "scalar"
    THEN \* np.diag of a 0-d array
         [kind |-> "ValueError: Input must be 1- or 2-d", shape |-> "none", v |-> <<>>]
    ELSE IF \E j \in 1..Len(var.v) : var.v[j].k # "num"
    THEN \* the covariance holds a nan
         [kind |-> "ValueError: array must not contain infs or NaNs",
          shape |-> "none", v |-> <<>>]
    ELSE IF \E j \in 1..Len(var.v) : var.v[j].n = 0
    THEN \* multivariate_normal refuses a singular covariance
         [kind |-> "LinAlgError: singular matrix", shape |-> "none", v |-> <<>>]
    ELSE \* one density per sample; the result of a single sample is a scalar
         [kind |-> "ok", shape |-> IF X.rows = 1 THEN "scalar" ELSE "vector",
          v |-> [i \in 1..X.rows |-> Density(X.data[i], mu.v, var.v)]]

\* the validation scores a train call of the modelled inputs can hand to
\* select_threshold, and the results for them (evaluated once)
GaussSelectInputs ==
    UNION {{<<yv, CalculatePValue(Xv, EstimateGaussian(Xt).mu,
                                  EstimateGaussian(Xt).var).v>> :
               yv \in LabelVectors(Xv.rows)} :
           Xt \in GaussTrainColumns, Xv \in GaussColumns}
SelectTable == {<<in, SelectThreshold(in[1], in[2])>> : in \in GaussSelectInputs}
SelectThresholdOf(y_val, p_val) ==
    (CHOOSE t \in SelectTable : t[1] = <<y_val, p_val>>)[2]

\* select_threshold(y_val, self.p_values_val) of line 111
SelectOn(y_val, pv) ==
    IF pv.shape = "scalar"
    THEN \* max() of a float
         [kind |-> "TypeError: not iterable", epsilon |-> Num(0), F1 |-> Num(0)]
    ELSE SelectThresholdOf(y_val, pv.v)

\* AnomalyDetectionModel.__init__, lines 58-63
GaussInit ==
    /\ mu_train = Scalar(Num(0))
    /\ var_train = Scalar(Num(0))
    /\ p_values_train = Scalar(0)
    /\ p_values_val = Scalar(0)
    /\ epsilon = Div(5, 100)
    /\ f1 = Num(0)
    /\ g_pc = "idle"
    /\ g_calls = 0
    /\ g_ret = [op |-> "none", kind |-> "ok", X |-> NoMatrix, labels |-> Vec(<<>>)]
    /\ g_memo = None
    /\ g_val = None

OnlyGauss == focus = "gauss" /\ UNCHANGED <<focus, nn_vars, fn_vars, km_vars>>

GRet(op, kind, X, labels) == [op |-> op, kind |-> kind, X |-> X, labels |-> labels]

\* train(X_train, X_val, y_val), lines 108-111; the matrices have the same
\* number of features and y_val is aligned with X_val
GaussTrain(Xt, Xv, yv) ==
    /\ OnlyGauss
    /\ g_pc = "idle"
    /\ g_calls < MaxTrainCalls
    /\ Xt.cols = Xv.cols
    /\ Len(yv) = Xv.rows
    /\ g_pc' = "returned"
    /\ g_calls' = g_calls + 1
    /\ g_memo' = None
    /\ LET e == EstimateGaussian(Xt)
           pt == CalculatePValue(Xt, e.mu, e.var)
           pv == CalculatePValue(Xv, e.mu, e.var)
       IN  /\ mu_train' = e.mu
           /\ var_train' = e.var
           /\ IF pt.kind # "ok"
              THEN /\ g_ret' = GRet("train", pt.kind, Xt, Vec(<<>>))
                   /\ g_val' = None
                   /\ UNCHANGED <<p_values_train, p_values_val, epsilon, f1>>
              ELSE /\ p_values_train' = [shape |-> pt.shape, v |-> pt.v]
                   /\ IF pv.kind # "ok"
                      THEN /\ g_ret' = GRet("train", pv.kind, Xt, Vec(<<>>))
                           /\ g_val' = None
                           /\ UNCHANGED <<p_values_val, epsilon, f1>>
                      ELSE /\ p_values_val' = [shape |-> pv.shape, v |-> pv.v]
                           /\ LET st == SelectOn(yv, pv)
                              IN  IF st.kind # "ok"
                                  THEN /\ g_ret' = GRet("train", st.kind, Xt, Vec(<<>>))
                                       /\ g_val' = None
                                       /\ UNCHANGED <<epsilon, f1>>
                                  ELSE /\ epsilon' = st.epsilon
                                       /\ f1' = st.F1
                                       /\ g_ret' = GRet("train", "ok", Xt, Vec(<<>>))
                                       /\ g_val' = Some([X_val |-> Xv, y_val |-> yv])

\* a comparison that flags the samples whose density lies above the threshold
OutliersAbove(p_values, eps) ==
    [shape |-> p_values.shape,
     v |-> [i \in 1..Len(p_values.v) |-> FGt(Num(p_values.v[i]), eps)]]

\* outliers = p_values < self.epsilon   (line 126)
Outliers(p_values, eps) ==
    [shape |-> p_values.shape,
     v |-> [i \in 1..Len(p_values.v) |-> FLt(Num(p_values.v[i]), eps)]]

\* a predict that fits the parameters to the batch it is given
PredictFieldsRefit(X) ==
    <<EstimateGaussian(X).mu, EstimateGaussian(X).var, p_values_train, p_values_val,
      epsilon, f1>>

\* the fields of the detector after predict(X): predict assigns none
PredictFields(X) ==
    <<mu_train, var_train, p_values_train, p_values_val, epsilon, f1>>

\* predict(X), lines 125-127; remember tells whether this call is the one
\* later calls are compared with
GaussPredict(X, remember) ==
    /\ OnlyGauss
    /\ g_pc = "idle"
    /\ mu_train.shape = "vector" => X.cols = Len(mu_train.v)
    /\ g_pc' = "returned"
    /\ UNCHANGED <<g_calls, g_val>>
    /\ LET pr == CalculatePValue(X, mu_train, var_train)
       IN  IF pr.kind # "ok"
           THEN /\ g_ret' = GRet("predict", pr.kind, X, Vec(<<>>))
                /\ UNCHANGED <<gauss_fields, g_memo>>
           ELSE LET outliers == Outliers(pr, epsilon)
                    after == PredictFields(X)
                IN  /\ mu_train' = after[1]
                    /\ var_train' = after[2]
                    /\ p_values_train' = after[3]
                    /\ p_values_val' = after[4]
                    /\ epsilon' = after[5]
                    /\ f1' = after[6]
                    /\ g_ret' = GRet("predict", "ok", X, outliers)
                    /\ g_memo' = IF g_memo # None
                                 THEN Some([g_memo[1] EXCEPT !.again = TRUE])
                                 ELSE IF remember
                                 THEN Some([X |-> X, labels |-> outliers,
                                            again |-> FALSE])
                                 ELSE None

\* the caller takes the outcome of the call
GaussReturn ==
    /\ OnlyGauss
    /\ g_pc = "returned"
    /\ g_pc' = "idle"
    /\ g_ret' = GRet("none", "ok", NoMatrix, Vec(<<>>))
    /\ UNCHANGED <<gauss_fields, g_calls, g_memo, g_val>>

GaussNext ==
    \/ \E Xt \in GaussTrainColumns, Xv \in GaussColumns :
          \E yv \in LabelVectors(Xv.rows) : GaussTrain(Xt, Xv, yv)
    \/ \E X \in GaussColumns, remember \in BOOLEAN : GaussPredict(X, remember)
    \/ GaussReturn

(***************************************************************************)
(* The pure functions, applied to every input of a bounded set             *)
(***************************************************************************)
FnIdle ==
    /\ fn_pc = "none"
    /\ fn_X = NoMatrix
    /\ fn_y = <<>>
    /\ fn_p = <<>>
    /\ fn_ret = [kind |-> "none"]

OnlyFn == UNCHANGED <<focus, nn_vars, gauss_vars, km_vars, fn_X, fn_y, fn_p>>

\* aligned label and score vectors; the scores in increasing order (the sums
\* of select_threshold do not depend on the order of the samples)
ScoreSet == 0..MaxScore \cup {FarScore}
ScoreVectors(n) == {p \in [1..n -> ScoreSet] : \A i \in 1..n - 1 : p[i] <= p[i + 1]}

SelectInit ==
    /\ fn_pc = "call"
    /\ fn_X = NoMatrix
    /\ \E n \in 0..MaxN : fn_y \in LabelVectors(n) /\ fn_p \in ScoreVectors(n)
    /\ fn_ret = [kind |-> "none"]

\* best_epsilon, best_F1 = select_threshold(y_val, p_val)
SelectCall ==
    /\ focus = "select"
    /\ fn_pc = "call"
    /\ fn_pc' = "done"
    /\ fn_ret' = SelectThreshold(fn_y, fn_p)
    /\ OnlyFn

FitInit ==
    /\ fn_pc = "call"
    /\ fn_X \in GaussMatrices
    /\ fn_y = <<>>
    /\ fn_p = <<>>
    /\ fn_ret = [kind |-> "none"]

\* mu, var = estimate_gaussian(X); p = calculate_p_value(X, mu, var)
\* (lines 108-109 of train)
FitCall ==
    /\ focus = "fit"
    /\ fn_pc = "call"
    /\ fn_pc' = "done"
    /\ LET e == EstimateGaussian(fn_X)
           pt == CalculatePValue(fn_X, e.mu, e.var)
       IN  fn_ret' = [kind |-> pt.kind, mu |-> e.mu.v, var |-> e.var.v, p |-> pt.v]
    /\ OnlyFn

(***************************************************************************)
(* KMeansModel                                                             *)
(***************************************************************************)
\* the default of K in __init__ and the default of K in train
DefaultK == 3
TrainDefaultK == 3

KMMatrices ==
    UNION {[rows : {m}, cols : {f}, data : [1..m -> [1..f -> 0..KMVal]]] :
              m \in 0..KMRows, f \in 1..KMFeat}

\* the outcomes of np.random.permutation(m)[:K]: min(K, m) distinct rows
FirstOfPermutation(m, K) ==
    LET n == IF K < m THEN K ELSE m
    IN  {s \in [1..n -> 1..m] : \A a, b \in 1..n : a # b => s[a] # s[b]}

\* kMeans_init_centroids(X, K) for the outcome randidx of the permutation's head
kMeans_init_centroids(X, randidx) ==
    [k \in 1..Len(randidx) |-> [j \in 1..X.cols |-> Num(X.data[randidx[k]][j])]]

\* (x - c)^2 of an integer x and a finite c
SqDiff(x, c) == Rat((x * c.d - c.n) * (x * c.d - c.n), c.d * c.d)

RECURSIVE SqNorm(_, _, _)
SqNorm(x, c, j) ==
    IF j = 0 THEN Num(0) ELSE FAdd(SqNorm(x, c, j - 1), SqDiff(x[j], c[j]))

\* np.linalg.norm(x - c), up to the square root (which keeps the order): nan as
\* soon as c holds a nan
Distance(x, c) ==
    IF \E j \in 1..Len(c) : c[j].k # "num"
    THEN NaN
    ELSE Reduced(SqNorm(x, c, Len(c)))

\* np.argmin(distances), 0-based: the first nan if there is one, otherwise the
\* first minimum
ArgMin(distances) ==
    LET D == 1..Len(distances)
        nans == {k \in D : distances[k].k = "nan"}
        mins == {k \in D : \A l \in D : ~FLt(distances[l], distances[k])}
    IN  (IF nans # {} THEN SetMin(nans) ELSE SetMin(mins)) - 1

\* find_closest_centroids(X, centroids), lines 491-496
find_closest_centroids(X, cs) ==
    LET closest(i) == LET distance(k) == Distance(X.data[i], cs[k])
                      IN  ArgMin(Tabulate(distance, Len(cs)))
    IN  Tabulate(closest, X.rows)

\* new centroids that are the sum of their samples, not the mean
compute_centroids_sum(X, ix, K) ==
    LET centroid(k) ==
            LET indices == {i \in 1..X.rows : ix[i] = k - 1}
                total(j) == LET x(i) == IF i \in indices THEN X.data[i][j] ELSE 0
                            IN  SumTo(x, X.rows)
                sum(j) == IF indices = {} THEN NaN ELSE Num(total(j))
            IN  Tabulate(sum, X.cols)
    IN  Tabulate(centroid, K)

\* compute_centroids(X, idx, K), lines 510-515: np.mean of an empty selection
\* is nan (with a warning), it does not raise
compute_centroids(X, ix, K) ==
    LET centroid(k) ==
            LET indices == {i \in 1..X.rows : ix[i] = k - 1}
                total(j) == LET x(i) == IF i \in indices THEN X.data[i][j] ELSE 0
                            IN  SumTo(x, X.rows)
                mean(j) == Div(total(j), Cardinality(indices))
            IN  Tabulate(mean, X.cols)
    IN  Tabulate(centroid, K)

\* a loop that stops one round short
RangeHasNextShort(i, n) == i + 1 < n

\* for i in range(max_iters): round i is run
RangeHasNext(i, n) == i < n

KMNoResult ==
    [kind |-> "none", X |-> NoMatrix, K_arg |-> None, max_iters |-> 0,
     initial |-> <<>>, centroids |-> <<>>, idx |-> <<>>, rounds |-> 0,
     stable |-> FALSE]

KMLocalsIdle ==
    /\ km_pc = "idle"
    /\ km_X = NoMatrix
    /\ km_K = 0
    /\ km_max_iters = 0
    /\ initial_centroids = <<>>
    /\ centroids = <<>>
    /\ idx = <<>>
    /\ km_i = 0
    /\ km_ret = KMNoResult

KMIdle == km_self = [K |-> DefaultK] /\ KMLocalsIdle

\* KMeansModel.__init__(K): self.K is the only attribute
KMInit == km_self \in {[K |-> k] : k \in (1..MaxK) \cup {DefaultK}} /\ KMLocalsIdle

KMLocalsCleared ==
    /\ km_pc' = "returned"
    /\ km_X' = NoMatrix
    /\ km_K' = 0
    /\ km_max_iters' = 0
    /\ initial_centroids' = <<>>
    /\ centroids' = <<>>
    /\ idx' = <<>>
    /\ km_i' = 0

OnlyKM == focus = "kmeans" /\ UNCHANGED <<focus, nn_vars, gauss_vars, fn_vars>>

\* train(X, K, max_iters), lines 529-534; K_arg is None when the call leaves K
\* to its default
KMTrainBegin(X, K_arg, max_iters, randidx) ==
    /\ OnlyKM
    /\ km_pc = "idle"
    /\ UNCHANGED km_self
    /\ LET init == kMeans_init_centroids(X, randidx)
           zeros == [i \in 1..X.rows |-> 0]
       IN  IF RangeHasNext(0, max_iters)
           THEN /\ km_pc' = "loop"
                /\ km_X' = X
                /\ km_K' = Len(init)
                /\ km_max_iters' = max_iters
                /\ initial_centroids' = init
                /\ centroids' = init
                /\ idx' = zeros
                /\ km_i' = 0
                /\ km_ret' = [KMNoResult EXCEPT !.kind = "running", !.X = X,
                                               !.K_arg = K_arg,
                                               !.max_iters = max_iters,
                                               !.initial = init]
           ELSE /\ KMLocalsCleared
                /\ km_ret' = [kind |-> "ok", X |-> X, K_arg |-> K_arg,
                              max_iters |-> max_iters, initial |-> init,
                              centroids |-> init, idx |-> zeros, rounds |-> 0,
                              stable |-> FALSE]

\* one round of the loop of lines 535-537, and the return of line 538 after
\* the last one
KMRound ==
    /\ OnlyKM
    /\ km_pc = "loop"
    /\ UNCHANGED km_self
    /\ LET new_idx == find_closest_centroids(km_X, centroids)
           new_centroids == compute_centroids(km_X, new_idx, km_K)
       IN  IF RangeHasNext(km_i + 1, km_max_iters)
           THEN /\ idx' = new_idx
                /\ centroids' = new_centroids
                /\ km_i' = km_i + 1
                /\ UNCHANGED <<km_pc, km_X, km_K, km_max_iters, initial_centroids, km_ret>>
           ELSE /\ KMLocalsCleared
                /\ km_ret' = [km_ret EXCEPT !.kind = "ok",
                                            !.centroids = new_centroids,
                                            !.idx = new_idx,
                                            !.rounds = km_i + 1,
                                            !.stable = (new_centroids = centroids
                                                        /\ new_idx = idx)]

\* the caller takes the returned pair
KMReturn ==
    /\ OnlyKM
    /\ km_pc = "returned"
    /\ km_pc' = "idle"
    /\ km_ret' = KMNoResult
    /\ UNCHANGED <<km_self, km_X, km_K, km_max_iters, initial_centroids, centroids,
                   idx, km_i>>

\* a call of train on an idle instance, with any arguments and any draw
KMTrain ==
    /\ km_pc = "idle"
    /\ \E X \in KMMatrices, K_arg \in {None} \cup {Some(k) : k \in 1..MaxK},
          max_iters \in 0..MaxIters :
          \E randidx \in FirstOfPermutation(X.rows, IF K_arg = None
                                                    THEN TrainDefaultK
                                                    ELSE K_arg[1]) :
              KMTrainBegin(X, K_arg, max_iters, randidx)

KMNext ==
    \/ KMTrain
    \/ KMRound
    \/ KMReturn

\* the default of the constructor's patience argument
DefaultPatience == 10

\* the training loop: every num_epochs and patience, single-feature data
InitNN == focus = "nn" /\ NNInit(0..MaxEpochs, 0..MaxPatience) /\ GaussInit /\ FnIdle /\ KMIdle
NextNN == NNNext(TrainColumns, BatchColumns)
SpecNN == InitNN /\ [][NextNN]_vars

\* the data shapes: every feature count, a trainer of DataEpochs epochs
InitNNData == focus = "nn" /\ NNInit({DataEpochs}, {DefaultPatience}) /\ GaussInit /\ FnIdle /\ KMIdle
NextNNData == NNNext(TrainMatrices, Batches)
SpecNNData == InitNNData /\ [][NextNNData]_vars

\* the Gaussian detector: train and predict calls in any order
InitGauss == focus = "gauss" /\ GaussInit /\ NNIdle /\ FnIdle /\ KMIdle
NextGauss == GaussNext
SpecGauss == InitGauss /\ [][NextGauss]_vars

\* select_threshold on every label/score pair
InitSelect == focus = "select" /\ SelectInit /\ NNIdle /\ GaussInit /\ KMIdle
NextSelect == SelectCall
SpecSelect == InitSelect /\ [][NextSelect]_vars

\* estimate_gaussian and calculate_p_value on every matrix
InitFit == focus = "fit" /\ FitInit /\ NNIdle /\ GaussInit /\ KMIdle
NextFit == FitCall
SpecFit == InitFit /\ [][NextFit]_vars

\* KMeansModel: train calls with every K, max_iters and initial draw
InitKMeans == focus = "kmeans" /\ KMInit /\ NNIdle /\ GaussInit /\ FnIdle
NextKMeans == KMNext
SpecKMeans == InitKMeans /\ [][NextKMeans]_vars
\* ---------------------------------------------------------------------------
\* Early stopping of TrainAnomalyNN.train

\* the validation losses of the call in flight or just returned
CallLosses == SubSeq(valid_loss_arr, call_start + 1, Len(valid_loss_arr))

\* the lowest of the first i losses under IEEE <, infinity when there is none
LowestOf(L, i) ==
    LET S == {L[t] : t \in 1..i} \cap {Num(n) : n \in 0..MaxLoss}
    IN  IF S = {} THEN Inf ELSE CHOOSE x \in S : \A y \in S : ~FLt(y, x)

\* epoch i (counted from 1) failed to be strictly lower than the best before it
NoGain(L, i) == ~FLt(L[i], LowestOf(L, i - 1))

\* the number of consecutive epochs without gain that end with epoch i
RECURSIVE Streak(_, _)
Streak(L, i) == IF i = 0 \/ ~NoGain(L, i) THEN 0 ELSE 1 + Streak(L, i - 1)

\* epoch i is one where the loss failed to improve for patience epochs in a row
Exhausted(L, i) == Streak(L, i) >= patience

\* C1: with patience >= 1, train halts at the first epoch at which the
\* validation loss has failed to be strictly lower than the best seen for
\* patience consecutive epochs: no epoch runs after such an epoch, none of the
\* earlier epochs was one, and when the call ends at one, best_loss is the
\* lowest validation loss seen and stop_step is that epoch's zero-based index.
EarlyStopAtFirstExhaustion ==
    patience >= 1 =>
        /\ pc = "epoch" =>
               /\ epoch = Len(CallLosses)
               /\ \A i \in 1..Len(CallLosses) : ~Exhausted(CallLosses, i)
        /\ (pc = "returned" /\ nn_ret.op = "train" /\ Len(CallLosses) >= 1) =>
               LET n == Len(CallLosses)
               IN  /\ \A i \in 1..(n - 1) : ~Exhausted(CallLosses, i)
                   /\ (nn_ret.kind = "ok" /\ Exhausted(CallLosses, n)) =>
                          /\ stop_step = n - 1
                          /\ best_loss = LowestOf(CallLosses, n)

\* a call stopped before its last epoch, after a loss above the best one
EarlyStopWitness ==
    /\ patience >= 1
    /\ pc = "returned" /\ nn_ret.op = "train" /\ nn_ret.kind = "ok"
    /\ Len(CallLosses) >= 2
    /\ Len(CallLosses) < num_epochs
    /\ Exhausted(CallLosses, Len(CallLosses))
    /\ stop_step = Len(CallLosses) - 1
    /\ best_loss # CallLosses[Len(CallLosses)]
    /\ best_loss = LowestOf(CallLosses, Len(CallLosses))

\* ---------------------------------------------------------------------------
\* TrainAnomalyNN.predict before any train

\* the trainer as the constructor leaves it
FreshTrainer ==
    /\ input_dim = None /\ model = None
    /\ stop_step = 0 /\ best_loss = Num(0)
    /\ train_loss_arr = <<>> /\ valid_loss_arr = <<>>
    /\ train_min_values = None /\ train_max_values = None

\* C2: predict on a trainer on which train has never run raises the
\* ValueError of the missing model and leaves every field as it was.
PredictBeforeTrainRaises ==
    [][(FreshTrainer /\ pc = "idle" /\ nn_ret'.op = "predict") =>
          /\ nn_ret'.kind = "ValueError: not trained"
          /\ nn_fields' = nn_fields]_vars

\* a predict on a fresh trainer has just raised
PredictBeforeTrainWitness ==
    /\ FreshTrainer
    /\ pc = "returned" /\ nn_ret.op = "predict"
    /\ nn_ret.kind = "ValueError: not trained"
    /\ nn_ret.X.rows >= 1

\* ---------------------------------------------------------------------------
\* AnomalyDetectionModel.predict before any train

\* the detector as the constructor leaves it: mu 0, var 0, epsilon 0.05
Placeholders ==
    /\ mu_train = Scalar(Num(0)) /\ var_train = Scalar(Num(0))
    /\ epsilon = Div(5, 100) /\ f1 = Num(0)

\* C3: predict on a detector that was never trained signals an explicit
\* "not trained" error and never returns labels computed from the
\* constructor's placeholders.
UntrainedPredictSignalsNotTrained ==
    (g_pc = "returned" /\ g_ret.op = "predict" /\ g_calls = 0 /\ Placeholders) =>
        g_ret.kind = "not trained"

\* ---------------------------------------------------------------------------
\* select_threshold

\* the scores of the samples labelled lab
ScoresOf(y_val, p_val, lab) == {p_val[i] : i \in {j \in 1..Len(p_val) : y_val[j] = lab}}

\* every anomaly scores strictly below every normal sample, both kinds present
PerfectlySeparated(y_val, p_val) ==
    /\ ScoresOf(y_val, p_val, 1) # {} /\ ScoresOf(y_val, p_val, 0) # {}
    /\ \A a \in ScoresOf(y_val, p_val, 1) : \A b \in ScoresOf(y_val, p_val, 0) : a < b

\* C4: on perfectly separated scores select_threshold returns F1 = 1 and an
\* epsilon with max(anomaly scores) < epsilon <= min(normal scores), however
\* narrow the gap is next to the grid step.
SeparatedScoresGetPerfectThreshold ==
    (fn_pc = "done" /\ focus = "select" /\ PerfectlySeparated(fn_y, fn_p)) =>
        /\ fn_ret.kind = "ok"
        /\ fn_ret.F1 = Num(1)
        /\ FLt(Num(SetMax(ScoresOf(fn_y, fn_p, 1))), fn_ret.epsilon)
        /\ ~FLt(Num(SetMin(ScoresOf(fn_y, fn_p, 0))), fn_ret.epsilon)

\* C5: with no positive label and at least one sample, select_threshold
\* returns normally with F1 = 0 and epsilon = 0, also for a single sample and
\* for scores that are all equal.
NoPositivesReturnZero ==
    (fn_pc = "done" /\ focus = "select" /\ Len(fn_y) >= 1
        /\ \A i \in 1..Len(fn_y) : fn_y[i] = 0) =>
        /\ fn_ret.kind = "ok"
        /\ fn_ret.F1 = Num(0)
        /\ fn_ret.epsilon = Num(0)

\* the F1 of every grid candidate min + k * (max - min) / 1000, k = 0..999
GridF1(y_val, p_val) ==
    {<<k, Reduced(F1At(y_val, p_val, Candidate(SeqMin(p_val), SeqMax(p_val), k)))>> :
        k \in 0..(GridSteps - 1)}

\* the largest F1 of a grid, and the candidates that attain it
GridMax(T) == CHOOSE f \in {t[2] : t \in T} : \A t \in T : ~FLt(f, t[2])
GridArgMax(T, M) == {t[1] : t \in {u \in T : u[2] = M}}

\* C6: when select_threshold returns, its F1 is the maximum of F1 over the
\* grid candidates min + k * (max - min) / 1000, k = 0..999, and its epsilon
\* is the lowest candidate that attains this maximum; when the maximum is 0,
\* epsilon is the initial 0.
ReturnsLowestGridOptimum ==
    (fn_pc = "done" /\ focus = "select" /\ fn_ret.kind = "ok") =>
        LET T == GridF1(fn_y, fn_p)
            M == GridMax(T)
        IN  /\ fn_ret.F1 = M
            /\ fn_ret.epsilon =
                   IF M = Num(0)
                   THEN Num(0)
                   ELSE Reduced(Candidate(SeqMin(fn_p), SeqMax(fn_p),
                                          SetMin(GridArgMax(T, M))))

\* a grid on which F1 is positive before it reaches its maximum, which several
\* candidates attain
GridOptimumWitness ==
    /\ fn_pc = "done" /\ focus = "select" /\ fn_ret.kind = "ok"
    /\ LET T == GridF1(fn_y, fn_p)
           M == GridMax(T)
           K == GridArgMax(T, M)
       IN  /\ Cardinality(K) >= 2
           /\ \E t \in T : t[1] < SetMin(K) /\ FLt(Num(0), t[2])
           /\ fn_ret.F1 = M
           /\ fn_ret.epsilon = Reduced(Candidate(SeqMin(fn_p), SeqMax(fn_p), SetMin(K)))

\* ---------------------------------------------------------------------------
\* The bounds of the normaliser

\* C7: once train has stored the bounds of X_train, neither the normalisation
\* of X_valid inside that train nor a later predict changes train_min_values
\* or train_max_values, and every validation and inference batch is scaled
\* with the bounds of X_train, whatever its own minimum and maximum are.
BoundsComeFromTrainingData ==
    /\ [](pc = "epoch" =>
            /\ train_min_values = Some(ColMin(X_train))
            /\ train_max_values = Some(ColMax(X_train))
            /\ normalized_validation_data =
                   ScaleWith(X_valid, ColMin(X_train), ColMax(X_train)))
    /\ [][(pc = "idle" /\ nn_ret'.op = "predict") =>
            /\ train_min_values' = train_min_values
            /\ train_max_values' = train_max_values
            /\ nn_ret'.kind = "ok" =>
                   nn_ret'.normalized =
                       ScaleWith(nn_ret'.X, train_min_values[1], train_max_values[1])]_vars

\* an inference batch whose own bounds differ from the stored ones has been
\* scaled with the stored ones
ForeignBatchWitness ==
    /\ pc = "returned" /\ nn_ret.op = "predict" /\ nn_ret.kind = "ok"
    /\ nn_ret.X.rows >= 1
    /\ ColMin(nn_ret.X) # train_min_values[1]
    /\ ColMax(nn_ret.X) # train_max_values[1]
    /\ AllFinite(nn_ret.normalized)
    /\ nn_ret.normalized = ScaleWith(nn_ret.X, train_min_values[1], train_max_values[1])
    /\ nn_ret.normalized # ScaleWith(nn_ret.X, ColMin(nn_ret.X), ColMax(nn_ret.X))

\* ---------------------------------------------------------------------------
\* AnomalyDetectionModel.predict is read-only

\* C8: predict on a trained detector leaves mu_train, var_train, epsilon and
\* f1 unchanged, so two predicts with the same input and no train in between
\* return identical labels.
PredictIsReadOnly ==
    /\ [][(g_pc = "idle" /\ g_ret'.op = "predict") =>
            /\ mu_train' = mu_train /\ var_train' = var_train
            /\ epsilon' = epsilon /\ f1' = f1]_vars
    /\ []((g_pc = "returned" /\ g_ret.op = "predict" /\ g_ret.kind = "ok"
            /\ g_memo # None) =>
              (g_memo[1].X = g_ret.X => g_memo[1].labels = g_ret.labels))

\* a later predict of the remembered batch has returned the labels of the
\* first; one sample is flagged and one is not
RepeatedPredictWitness ==
    /\ g_pc = "returned" /\ g_ret.op = "predict" /\ g_ret.kind = "ok"
    /\ g_calls >= 1
    /\ g_memo # None
    /\ g_memo[1].again
    /\ g_memo[1].X = g_ret.X
    /\ g_memo[1].labels = g_ret.labels
    /\ g_ret.X.rows = 2
    /\ g_ret.labels.v[1] /\ ~g_ret.labels.v[2]

\* ---------------------------------------------------------------------------
\* Constant features

\* the features of X on which all samples agree
ConstantFeatures(X) ==
    {j \in 1..X.cols : \A i \in 1..X.rows : X.data[i][j] = X.data[1][j]}

\* C9: when a feature of X_train has max == min, the normalisation signals
\* an explicit error or sentinel: it does not hand back a batch holding the
\* result of a division by zero, and train does not go on to build and fit a
\* network on such a batch.
ConstantFeatureStopsTrain ==
    pc = "epoch" =>
        /\ ConstantFeatures(X_train) = {}
        /\ AllFinite(normalized_training_data)

\* C10: for a training matrix with a constant feature, estimate_gaussian
\* returns the constant as that feature's mean and 0 as its variance, and
\* calculate_p_value signals the singular covariance as an error instead of
\* returning a density per sample.
ConstantFeatureIsSingular ==
    (fn_pc = "done" /\ focus = "fit" /\ fn_X.rows >= 1) =>
        \A j \in ConstantFeatures(fn_X) :
            /\ fn_ret.mu[j] = Num(fn_X.data[1][j])
            /\ fn_ret.var[j] = Num(0)
            /\ fn_ret.kind = "LinAlgError: singular matrix"
            /\ fn_ret.p = <<>>

\* two samples that agree on one feature and differ on the other
ConstantFeatureWitness ==
    /\ fn_pc = "done" /\ focus = "fit"
    /\ fn_X.rows = 2 /\ fn_X.cols = 2
    /\ Cardinality(ConstantFeatures(fn_X)) = 1
    /\ \E j \in ConstantFeatures(fn_X) :
          /\ fn_X.data[1][j] > 0
          /\ fn_ret.mu[j] = Num(fn_X.data[1][j])
          /\ fn_ret.var[j] = Num(0)
    /\ fn_ret.kind = "LinAlgError: singular matrix"

\* ---------------------------------------------------------------------------
\* Feature counts at inference

\* C12: predict with a matrix whose feature count differs from the one the
\* network was trained with fails explicitly, for every such feature count,
\* a single column included; it never returns predictions computed from an
\* input that broadcasting has reshaped.
MismatchedPredictFails ==
    (pc = "returned" /\ nn_ret.op = "predict" /\ model # None
        /\ nn_ret.X.cols # model[1].input_dim) =>
        nn_ret.kind # "ok"

\* ---------------------------------------------------------------------------
\* Empty inputs of TrainAnomalyNN.train

\* C13: train with an empty X_train or an empty X_valid fails at once: the
\* call never reaches a training epoch, appends no loss to either history and
\* leaves the trainer without a network that predict accepts.
EmptyInputFailsAtOnce ==
    /\ pc = "epoch" => (X_train.rows >= 1 /\ X_valid.rows >= 1)
    /\ (pc = "returned" /\ nn_ret.op = "train"
            /\ nn_ret.kind = "ZeroDivisionError") =>
          /\ Len(train_loss_arr) = Len(valid_loss_arr)
          /\ model = None

\* ---------------------------------------------------------------------------
\* Parameter updates per epoch

\* C17: in every training epoch the parameters are updated once per training
\* sample: an epoch over N samples performs N optimizer steps (the validation
\* pass none), not one step per mini-batch of 64.
OneStepPerSample ==
    (pc = "epoch" /\ epoch >= 1) => optimizer_steps = X_train.rows

\* ---------------------------------------------------------------------------
\* The loss histories

\* a is b or b with one entry appended
GrownByAtMostOne(a, b) ==
    /\ Len(b) \in {Len(a), Len(a) + 1}
    /\ SubSeq(b, 1, Len(a)) = a

\* C18: a completed train call runs at most num_epochs epochs and appends one
\* entry to train_loss_arr and one to valid_loss_arr per epoch run, never
\* removing or rewriting an earlier entry; after any sequence of completed
\* train calls the two histories have the same length, the total number of
\* epochs run.
HistoriesCountEpochs ==
    /\ [][/\ GrownByAtMostOne(train_loss_arr, train_loss_arr')
          /\ GrownByAtMostOne(valid_loss_arr, valid_loss_arr')]_vars
    /\ [](~train_raised =>
            /\ Len(train_loss_arr) = epochs_run
            /\ Len(valid_loss_arr) = epochs_run
            /\ (pc = "epoch" \/ (pc = "returned" /\ nn_ret.op = "train")) =>
                   epochs_run - call_start <= num_epochs)

\* a second completed call has added its epochs to those of the first
SecondCallWitness ==
    /\ pc = "returned" /\ nn_ret.op = "train" /\ nn_ret.kind = "ok"
    /\ ~train_raised
    /\ call_start >= 1
    /\ epochs_run > call_start
    /\ Len(train_loss_arr) = epochs_run
    /\ Len(valid_loss_arr) = epochs_run

\* ---------------------------------------------------------------------------
\* The stored bounds and the network

\* C20: whenever the trainer holds a network, train_min_values and
\* train_max_values are the bounds of the X_train of the train call that
\* built that network, after any sequence of train and predict calls, train
\* calls that raise part-way included.
BoundsBelongToNetwork ==
    model # None =>
        /\ train_min_values = Some(model[1].min_vals)
        /\ train_max_values = Some(model[1].max_vals)

\* ---------------------------------------------------------------------------
\* KMeansModel.train

\* every coordinate of every centroid is a finite number
FiniteCentroids(cs) ==
    \A k \in 1..Len(cs) : \A j \in 1..Len(cs[k]) : IsFinite(cs[k][j])

\* the clusters of 0..K-1 that the assignment ix leaves without a sample
EmptyClusters(ix, K) == {k \in 0..(K - 1) : \A i \in 1..Len(ix) : ix[i] # k}

\* C11: when a round of train leaves a centroid without a sample, the
\* condition is surfaced as an explicit failure: the undefined mean is never
\* stored as a centroid for the next assignment step, nor returned.
EmptyClusterIsSurfaced ==
    /\ (km_pc = "loop" /\ km_i >= 1) =>
           /\ EmptyClusters(idx, km_K) = {}
           /\ FiniteCentroids(centroids)
    /\ (km_pc = "returned" /\ km_ret.kind = "ok" /\ km_ret.rounds >= 1) =>
           /\ EmptyClusters(km_ret.idx, Len(km_ret.centroids)) = {}
           /\ FiniteCentroids(km_ret.centroids)

\* the per-feature mean of all samples of X (X has a row)
MeanOfAll(X) ==
    [j \in 1..X.cols |->
        LET x(i) == X.data[i][j] IN Div(SumTo(x, X.rows), X.rows)]

\* C14: for K = 1, an input with at least one sample and max_iters >= 1, train
\* returns exactly one centroid, the per-feature mean of all samples, and an
\* assignment vector of zeros, whichever row was drawn as the initial centroid.
SingleClusterIsMean ==
    (km_pc = "returned" /\ km_ret.kind = "ok" /\ km_ret.K_arg = Some(1)
        /\ km_ret.X.rows >= 1 /\ km_ret.max_iters >= 1) =>
        /\ Len(km_ret.centroids) = 1
        /\ km_ret.centroids[1] = MeanOfAll(km_ret.X)
        /\ km_ret.idx = [i \in 1..km_ret.X.rows |-> 0]

\* three samples with two features, a mean that is none of the samples, and
\* an initial centroid that differs from it
SingleClusterWitness ==
    /\ km_pc = "returned" /\ km_ret.kind = "ok" /\ km_ret.K_arg = Some(1)
    /\ km_ret.X.rows = 3 /\ km_ret.X.cols = 2
    /\ km_ret.max_iters = 2
    /\ km_ret.centroids = <<MeanOfAll(km_ret.X)>>
    /\ km_ret.initial # km_ret.centroids
    /\ \A j \in 1..2 : MeanOfAll(km_ret.X)[j].d = 3
    /\ km_ret.idx = <<0, 0, 0>>

\* C15: the number of clusters train uses is the K given to the constructor:
\* after KMeansModel(K=k), train(X, max_iters=n) partitions X into k clusters.
ConstructorKIsUsed ==
    (km_pc = "returned" /\ km_ret.kind = "ok" /\ km_ret.K_arg = None
        /\ km_ret.X.rows >= km_self.K) =>
        Len(km_ret.centroids) = km_self.K

\* C16: after train has returned, the instance exposes the result as the
\* attributes centroids and labels, equal to the returned centroids and
\* assignment vector.
ResultIsExposed ==
    (km_pc = "returned" /\ km_ret.kind = "ok") =>
        /\ {"centroids", "labels"} \subseteq DOMAIN km_self
        /\ km_self["centroids"] = km_ret.centroids
        /\ km_self["labels"] = km_ret.idx

\* C19: train performs exactly max_iters assignment-then-update rounds, with
\* no early exit when assignments and centroids stop changing; for
\* max_iters = 0 it returns the drawn initial centroids, which are rows of X,
\* and an all-zero assignment vector.
ExactlyMaxItersRounds ==
    /\ km_pc = "loop" => (km_i < km_max_iters /\ km_max_iters = km_ret.max_iters)
    /\ (km_pc = "returned" /\ km_ret.kind = "ok") =>
           /\ km_ret.rounds = km_ret.max_iters
           /\ km_ret.max_iters = 0 =>
                  /\ km_ret.centroids = km_ret.initial
                  /\ \A k \in 1..Len(km_ret.initial) :
                         \E i \in 1..km_ret.X.rows :
                            km_ret.initial[k] =
                                [j \in 1..km_ret.X.cols |-> Num(km_ret.X.data[i][j])]
                  /\ km_ret.idx = [i \in 1..km_ret.X.rows |-> 0]

\* a call whose second and last round changed neither the assignments nor
\* the centroids
StableRoundWitness ==
    /\ km_pc = "returned" /\ km_ret.kind = "ok"
    /\ km_ret.max_iters = 2 /\ km_ret.rounds = 2
    /\ km_ret.stable
    /\ Len(km_ret.centroids) = 2
    /\ FiniteCentroids(km_ret.centroids)
    /\ km_ret.X.rows = 3


\* ---------------------------------------------------------------------------
\* AnomalyDetectionModel.train that raises

\* C21: if AnomalyDetectionModel.train raises, the detector is left exactly
\* as it was before the call: mu_train, var_train, p_values_train,
\* p_values_val, epsilon and f1 keep their previous values.
FailedTrainLeavesDetector ==
    [][(g_pc = "idle" /\ g_ret'.op = "train" /\ g_ret'.kind # "ok")
          => UNCHANGED gauss_fields]_vars

\* ---------------------------------------------------------------------------
\* best_loss and stop_step after a train call

\* C22: after every completed TrainAnomalyNN.train call that ran an epoch,
\* best_loss is the lowest validation loss recorded during that call and
\* stop_step is the zero-based index of the last epoch the call ran, whether
\* the call stopped early or exhausted num_epochs, and whatever an earlier
\* call left in these fields.
RecordsDescribeLastCall ==
    (pc = "returned" /\ nn_ret.op = "train" /\ nn_ret.kind = "ok"
        /\ Len(CallLosses) >= 1) =>
        /\ best_loss = LowestOf(CallLosses, Len(CallLosses))
        /\ stop_step = Len(CallLosses) - 1

\* ---------------------------------------------------------------------------
\* predict on the validation data of the last train call

\* the F1 of a vector of labels against y_val, by lines 83-88
F1Of(y_val, labels) ==
    LET I == 1..Len(labels)
        tp == Count({i \in I : labels[i] /\ y_val[i] = 1})
        fp == Count({i \in I : labels[i] /\ y_val[i] = 0})
        fn == Count({i \in I : ~labels[i] /\ y_val[i] = 1})
        precision == IF tp + fp > 0 THEN Rat(tp, tp + fp) ELSE Num(0)
        recall == IF tp + fn > 0 THEN Rat(tp, tp + fn) ELSE Num(0)
    IN  IF FGt(FAdd(precision, recall), Num(0))
        THEN Reduced(FQuot(FMul(Num(2), FMul(precision, recall)),
                           FAdd(precision, recall)))
        ELSE Num(0)

\* a predict call has returned labels and the last train call succeeded
PredictedAfterTrain ==
    /\ g_pc = "returned" /\ g_ret.op = "predict" /\ g_ret.kind = "ok"
    /\ g_val # None

\* C23: after a successful train(X_train, X_val, y_val), the labels that
\* predict(X_val) returns have, against y_val, exactly the F1 stored in f1;
\* and when f1 = 0 and epsilon = 0 predict flags no sample of any input.
PredictReproducesF1 ==
    PredictedAfterTrain =>
        /\ g_ret.X = g_val[1].X_val =>
               F1Of(g_val[1].y_val, g_ret.labels.v) = f1
        /\ (f1 = Num(0) /\ epsilon = Num(0)) =>
               \A i \in 1..Len(g_ret.labels.v) : ~g_ret.labels.v[i]

\* predict(X_val) flagged some but not all samples and the stored F1 is positive
PredictOnValidationWitness ==
    /\ PredictedAfterTrain
    /\ g_ret.X = g_val[1].X_val
    /\ FGt(f1, Num(0))
    /\ \E i \in 1..Len(g_ret.labels.v) : g_ret.labels.v[i]
    /\ \E i \in 1..Len(g_ret.labels.v) : ~g_ret.labels.v[i]
    /\ F1Of(g_val[1].y_val, g_ret.labels.v) = f1
====
